---- MODULE Spec2Model ----
(***************************************************************************)
(* A model of jwst.py: JWST.analyze_directory, the batch orchestrator that *)
(* discovers the screenshots of a directory, analyses each one on a        *)
(* thread pool, collects the outcomes in completion order and renders the  *)
(* report, together with JWST.analyze_screenshot, the per-file adapter.    *)
(* The pool is concurrent.futures.ThreadPoolExecutor and the collection    *)
(* loop runs over concurrent.futures.as_completed, modelled by what they   *)
(* do: a FIFO work queue, at most max_workers threads, futures yielded in  *)
(* the order they finish.                                                  *)
(*                                                                         *)
(* Python dicts whose order is observable (results) are sequences of       *)
(* <<key, value>> pairs in insertion order; the payload of one result is a *)
(* function from its keys.                                                 *)
(***************************************************************************)
EXTENDS Integers, Sequences, FiniteSets, TLC

\* ------------------------------------------------------------------ bounds
\* the largest number of entries a directory of the model holds
MaxFiles == 3
\* the largest --workers value the model tries
MaxWorkers == 2
\* the longest technologies list the renderer is given
MaxTechs == 2

\* ------------------------------------------------------- program constants
\* the width of the technologies cell: [:30] and len(tech_str) == 30
TechWidth == 30

None == "None"

Min(a, b) == IF a < b THEN a ELSE b

Range(s) == {s[i] : i \in 1..Len(s)}

\* the permutations of a finite set, as sequences
Perms(S) == {s \in [1..Cardinality(S) -> S] : \A i, j \in 1..Cardinality(S) : s[i] = s[j] => i = j}

\* ------------------------------------------------------------- file names
SUPPORTED_EXTENSIONS == <<".png", ".jpg", ".jpeg", ".webp">>

\* the directory_path argument
Directory == "shots"

\* the directory entries the model draws a directory from: two files of one
\* extension, files of other extensions, and an upper-case extension
Names == {"a.png", "b.png", "c.jpg", "d.jpeg", "e.PNG"}

\* fnmatch of the pattern "*" + ext: the name ends with ext, case-sensitively
EndsWith(name, ext) ==
  /\ Len(name) >= Len(ext)
  /\ SubSeq(name, Len(name) - Len(ext) + 1, Len(name)) = ext

\* Path(directory_path) / name, as str(img_file) gives it
PathOf(name) == Directory \o "/" \o name

\* os.path.basename: what follows the last "/"
RECURSIVE LastSlash(_, _)
LastSlash(path, i) ==
  IF i = 0 THEN 0
  ELSE IF SubSeq(path, i, i) = "/" THEN i
  ELSE LastSlash(path, i - 1)

Basename(path) == SubSeq(path, LastSlash(path, Len(path)) + 1, Len(path))

\* a variant whose pattern leaves the extension out (glob("*"))
Glob_AnyFile(state, entries, ext) ==
  IF state = "ok" THEN {PathOf(n) : n \in entries} ELSE {}

\* Path(directory_path).glob("*" + ext): the matching entries found directly
\* in the directory; an absent or unreadable directory yields nothing
\* (pathlib swallows the scandir error)
Glob(state, entries, ext) ==
  IF state = "ok" THEN {PathOf(n) : n \in {m \in entries : EndsWith(m, ext)}} ELSE {}

\* the values image_files can take after the first k extensions: the globs in
\* the order of SUPPORTED_EXTENSIONS, each in directory (arbitrary) order
RECURSIVE Discovered(_, _, _)
Discovered(state, entries, k) ==
  IF k = 0 THEN {<< >>}
  ELSE {s \o p : s \in Discovered(state, entries, k - 1),
                 p \in Perms(Glob(state, entries, SUPPORTED_EXTENSIONS[k]))}

\* ------------------------------------------------------------ the backend
\* what the environment does with one file: the file is unreadable, the
\* request fails (network failure or non-success response), the response
\* body is not JSON, or the backend answers with a JSON object
Kinds == {"ok", "ioerr", "neterr", "badjson"}

Feature(d, c) == [detected |-> d, confidence |-> c]

\* the JSON object the backend answers with for a file (confidences in
\* hundredths); some answers lack sub-fields
PayloadOf(name) ==
  CASE name = "a.png" ->
         [old_looking |-> Feature(TRUE, 90), login_page |-> Feature(TRUE, 75),
          webapp |-> Feature(FALSE, 10), custom_404 |-> Feature(FALSE, 5),
          parked_domain |-> Feature(FALSE, 0),
          technologies |-> <<"PHP", "nginx">>,
          security_issues |-> << >>]
    [] name = "b.png" ->
         [old_looking |-> Feature(FALSE, 20), webapp |-> Feature(TRUE, 80),
          technologies |-> << >>]
    [] name = "c.jpg" ->
         [login_page |-> [detected |-> TRUE], parked_domain |-> Feature(TRUE, 99)]
    [] OTHER ->
         [old_looking |-> Feature(TRUE, 50), login_page |-> Feature(FALSE, 50),
          webapp |-> Feature(FALSE, 50), custom_404 |-> Feature(TRUE, 50),
          parked_domain |-> Feature(FALSE, 50),
          technologies |-> <<"IIS">>,
          security_issues |-> <<"directory listing">>]

\* --------------------------------------------------------------- dicts
\* d.get(k, default) on a dict held as a function
Get(d, k, default) == IF k \in DOMAIN d THEN d[k] ELSE default

EmptyDict == << >>

\* the keys of an insertion-ordered dict, in order, and as a set
KeySeq(d) == [i \in 1..Len(d) |-> d[i][1]]
Keys(d) == {d[i][1] : i \in 1..Len(d)}

\* d[k] for a key of an insertion-ordered dict
Lookup(d, k) == d[CHOOSE i \in 1..Len(d) : d[i][1] = k][2]

\* d[k] = v on an insertion-ordered dict: a new key goes last, an existing
\* key keeps its place and takes the new value
DictSet(d, k, v) ==
  IF k \in Keys(d)
  THEN [i \in 1..Len(d) |-> IF d[i][1] = k THEN <<k, v>> ELSE d[i]]
  ELSE Append(d, <<k, v>>)

\* ------------------------------------------------------------ the adapter
\* a variant that sends the request again after a failed one
analyze_screenshot_Retry(image_path, k) ==
  IF k = "ioerr"
  THEN [tag |-> "exception", value |-> [exc |-> "PermissionError"], calls |-> 0]
  ELSE IF k = "neterr"
  THEN [tag |-> "result",
        value |-> [error |-> "APIConnectionError", filename |-> Basename(image_path)],
        calls |-> 2]
  ELSE IF k = "badjson"
  THEN [tag |-> "result",
        value |-> [error |-> "JSONDecodeError", filename |-> Basename(image_path)],
        calls |-> 1]
  ELSE [tag |-> "result", value |-> PayloadOf(Basename(image_path)), calls |-> 1]

\* JWST.analyze_screenshot on one path, when the environment does k with the
\* file: what the call does (returns a dict or raises) and how many times it
\* called client.chat.completions.create.  encode_image runs before the try
\* block and before the request.
analyze_screenshot(image_path, k) ==
  IF k = "ioerr"
  THEN [tag |-> "exception", value |-> [exc |-> "PermissionError"], calls |-> 0]
  ELSE IF k = "neterr"
  THEN [tag |-> "result",
        value |-> [error |-> "APIConnectionError", filename |-> Basename(image_path)],
        calls |-> 1]
  ELSE IF k = "badjson"
  THEN [tag |-> "result",
        value |-> [error |-> "JSONDecodeError", filename |-> Basename(image_path)],
        calls |-> 1]
  ELSE [tag |-> "result", value |-> PayloadOf(Basename(image_path)), calls |-> 1]

\* ------------------------------------------------------------ the executor
\* ThreadPoolExecutor(max_workers=n) accepts n (raises ValueError otherwise)
PoolAccepts(n) == n > 0

\* len(self._threads): a new thread starts blocked in work_queue.get()
ThreadCount(ths) == ths.blocked + Cardinality(ths.running)

NoThreads == [blocked |-> 0, running |-> {}]

\* a variant that starts a thread for every submission that finds no idle
\* thread, however many threads exist (one thread per file)
AdjustThreadCount_Unbounded(ths, idle, maxw) ==
  IF idle > 0 THEN <<ths, idle - 1>> ELSE <<[ths EXCEPT !.blocked = @ + 1], idle>>

\* ThreadPoolExecutor._adjust_thread_count, run by submit: take an idle
\* thread's token, else start a thread while fewer than max_workers exist
AdjustThreadCount(ths, idle, maxw) ==
  IF idle > 0 THEN <<ths, idle - 1>>
  ELSE IF ThreadCount(ths) < maxw THEN <<[ths EXCEPT !.blocked = @ + 1], idle>>
  ELSE <<ths, idle>>

\* the Future executor.submit returns, and the work item's argument
NewFuture(path) ==
  [state |-> "PENDING", tag |-> "none", value |-> EmptyDict, arg |-> path,
   runs |-> 0, calls |-> 0, records |-> 0]

\* a variant that looks every future up as the last file (a late-bound
\* loop variable)
FutureToFile_LateBound(files, i) == files[Len(files)]

\* a variant that looks a future up by a position one off
FutureToFile_Next(files, i) == files[(i % Len(files)) + 1]

\* future_to_file[future]: the comprehension binds the i-th future to the
\* i-th discovered file
FutureToFile(files, i) == files[i]

\* a variant that never hears of a future that finishes after it started
NextYield_SnapshotOnly(w) == w.snapshot

\* the futures as_completed may yield next: those finished before it started,
\* in any order, then the others in the order they finished
NextYield(w) ==
  IF w.snapshot # {} THEN w.snapshot
  ELSE IF w.finished # << >> THEN {Head(w.finished)}
  ELSE {}

\* a variant that leaves the yielded future where it was
AfterYield_Keep(w, i) == w

AfterYield(w, i) ==
  IF w.snapshot # {} THEN [w EXCEPT !.snapshot = @ \ {i}]
  ELSE [w EXCEPT !.finished = Tail(@)]

\* a variant without the try/except: a task's exception leaves the loop
LoopExit_Uncaught(f, n, total) ==
  IF f.tag = "exception" THEN "raised"
  ELSE IF n = total THEN "output" ELSE "collect"

\* a variant that stops collecting at the first completed future
LoopExit_FirstCompleted(f, n, total) == "output"

\* where analyze_directory goes after an iteration of the collection loop
\* that recorded future f as the n-th of total: the try/except of lines
\* 159-163 keeps a task's exception from leaving the loop, and the loop ends
\* when as_completed has yielded every future
LoopExit(f, n, total) == IF n = total THEN "output" ELSE "collect"

\* a variant without the early return: an empty run goes on to the output stage
AfterDiscovery_NoEarlyReturn(files) == IF files = << >> THEN "output" ELSE "pool"

\* lines 140-142: where analyze_directory goes once the globs are done
AfterDiscovery(files) == IF files = << >> THEN "returned" ELSE "pool"

\* a variant that leaves the count of completed iterations where it was
TqdmUpdate_Stale(n) == n

\* tqdm's count after one more iteration of the loop it wraps
TqdmUpdate(n) == n + 1

\* a variant whose error entry is filled up with empty feature lists
RecordOutcome_Defaults(res, filename, f) ==
  IF f.tag = "exception"
  THEN DictSet(res, filename,
               [error |-> f.value.exc, technologies |-> << >>, security_issues |-> << >>])
  ELSE DictSet(res, filename, f.value)

\* the body of the collection loop: results[filename] = future.result(), or
\* the error entry when result() re-raises the task's exception
RecordOutcome(res, filename, f) ==
  IF f.tag = "exception"
  THEN DictSet(res, filename, [error |-> f.value.exc])
  ELSE DictSet(res, filename, f.value)

\* ------------------------------------------------------------ the report
Digit(n) == SubSeq("0123456789", n + 1, n + 1)

\* format(c, ".2f") of a confidence held in hundredths
Fmt2(c) == ToString(c \div 100) \o "." \o Digit((c % 100) \div 10) \o Digit(c % 10)

\* ", ".join(techs)
RECURSIVE Join(_)
Join(techs) ==
  IF Len(techs) = 0 THEN ""
  ELSE IF Len(techs) = 1 THEN techs[1]
  ELSE techs[1] \o ", " \o Join(Tail(techs))

\* the technologies cell: the joined string cut to TechWidth characters, and
\* "..." appended when what is left has TechWidth characters
TechStr(techs) ==
  LET joined == Join(techs)
      tech_str == SubSeq(joined, 1, Min(TechWidth, Len(joined)))
  IN  IF Len(tech_str) = TechWidth THEN tech_str \o "..." ELSE tech_str

\* a variant that takes a feature without a detected field as detected
FeatureCell_DetectedByDefault(result, key) ==
  LET sub == Get(result, key, EmptyDict)
  IN  (IF Get(sub, "detected", TRUE) THEN "Y" ELSE "N")
        \o " (" \o Fmt2(Get(sub, "confidence", 0)) \o ")"

\* one feature cell of the table
FeatureCell(result, key) ==
  LET sub == Get(result, key, EmptyDict)
  IN  (IF Get(sub, "detected", FALSE) THEN "Y" ELSE "N")
        \o " (" \o Fmt2(Get(sub, "confidence", 0)) \o ")"

\* table.add_row for one entry of results
TableRow(filename, result) ==
  IF "error" \in DOMAIN result
  THEN <<filename, "ERROR: " \o result.error, "", "", "", "", "">>
  ELSE <<filename,
         FeatureCell(result, "old_looking"), FeatureCell(result, "login_page"),
         FeatureCell(result, "webapp"), FeatureCell(result, "custom_404"),
         FeatureCell(result, "parked_domain"),
         TechStr(Get(result, "technologies", << >>))>>

\* the rows of the table, in the order of results.items()
TableRows(res) == [i \in 1..Len(res) |-> TableRow(res[i][1], res[i][2])]

\* json.dumps(results): the entries in insertion order, values as they are
JsonDumps(res) == [i \in 1..Len(res) |-> [key |-> res[i][1], value |-> res[i][2]]]

NoReport == [stdout |-> << >>, table |-> << >>, file |-> << >>]

\* the output stage of analyze_directory
Render(res, fmt, ofile) ==
  IF fmt = "json"
  THEN IF ofile # None
       THEN [NoReport EXCEPT !.file = <<JsonDumps(res)>>]
       ELSE [NoReport EXCEPT !.stdout = <<JsonDumps(res)>>]
  ELSE [NoReport EXCEPT !.table = <<TableRows(res)>>,
                        !.file = IF ofile # None THEN <<JsonDumps(res)>> ELSE << >>]

VARIABLES
  dirState,       \* "ok", "absent" or "unreadable": the directory argument
  dirEntries,     \* the names of the entries of the directory
  kind,           \* per matching file: "unseen", or what the environment did with it
  max_workers,    \* the max_workers argument
  output_format,  \* "json" or "table"; Unread until the call reads it or ends
  output_file,    \* None or the name of the output file; Unread likewise
  pc,             \* where analyze_directory is
  image_files,    \* the discovered paths, in discovery order
  queue,          \* the executor's work queue: future ids, FIFO
  threads,        \* the executor's threads: how many are blocked in get(), and
                  \* the futures the others are running (threads have no identity)
  idleSem,        \* the executor's _idle_semaphore
  fut,            \* per future: its state and outcome, and how often its work
                  \* item ran, called the backend and was recorded
  waiter,         \* as_completed: installed?, the snapshot, the finished list
  results,        \* the results dict, in insertion order
  progress,       \* tqdm's count of completed iterations
  backendCalls,   \* requests the backend received
  report,         \* what was printed and written
  returned,       \* << >>, or <<the dict analyze_directory returned>>
  techIn,         \* the renderer's input (a technologies list)
  techOut,        \* the renderer's technologies cell
  rowIn,          \* the table renderer's input (one entry of results)
  rowOut          \* the row and the JSON document rendered from it

orchVars == <<pc, image_files, results, progress, report, returned>>
poolVars == <<queue, threads, idleSem, fut, waiter, backendCalls>>
inputVars == <<dirState, dirEntries, kind, max_workers, output_format, output_file>>
renderVars == <<techIn, techOut, rowIn, rowOut>>
vars == <<inputVars, orchVars, poolVars, renderVars>>

\* ------------------------------------------------------------------ inputs
\* the entries of a directory that some supported extension matches
Matching(entries) ==
  {n \in entries : \E k \in 1..Len(SUPPORTED_EXTENSIONS) : EndsWith(n, SUPPORTED_EXTENSIONS[k])}

WorkerCounts == (-1)..MaxWorkers

\* the output_format and output_file arguments.  Nothing reads them before
\* the output stage, so the model draws them when the call reads them or,
\* on the paths that never do, when the call ends
Unread == "unread"
Formats == {"json", "table"}
OutputFiles == {None, "out.json"}

DrawOutputArgs ==
  /\ output_format' \in Formats
  /\ output_file' \in OutputFiles

InputInit ==
  /\ dirState \in {"ok", "absent", "unreadable"}
  /\ dirEntries \in {S \in SUBSET Names : Cardinality(S) <= MaxFiles}
  /\ dirState = "absent" => dirEntries = {}
  /\ kind = [n \in Matching(dirEntries) |-> "unseen"]
  /\ max_workers \in WorkerCounts
  /\ output_format = Unread
  /\ output_file = Unread

Init ==
  /\ InputInit
  /\ pc = "start"
  /\ image_files = << >>
  /\ queue = << >>
  /\ threads = NoThreads
  /\ idleSem = 0
  /\ fut = << >>
  /\ waiter = [installed |-> FALSE, snapshot |-> {}, finished |-> << >>]
  /\ results = << >>
  /\ progress = 0
  /\ backendCalls = 0
  /\ report = NoReport
  /\ returned = << >>
  /\ techIn = << >>
  /\ techOut = << >>
  /\ rowIn = << >>
  /\ rowOut = << >>

\* ----------------------------------------------------- analyze_directory
\* lines 136-144: the globs; no file found returns {} at once
Discover ==
  /\ pc = "start"
  /\ \E files \in Discovered(dirState, dirEntries, Len(SUPPORTED_EXTENSIONS)) :
       /\ image_files' = files
       /\ pc' = AfterDiscovery(files)
       /\ IF pc' = "returned"
          THEN returned' = << << >> >> /\ DrawOutputArgs
          ELSE returned' = returned /\ UNCHANGED <<output_format, output_file>>
  /\ UNCHANGED <<results, progress, report, dirState, dirEntries, kind, max_workers,
                 poolVars, renderVars>>

\* line 148: the executor is built; a max_workers it rejects raises
\* ValueError out of analyze_directory
CreatePool ==
  /\ pc = "pool"
  /\ IF PoolAccepts(max_workers)
     THEN pc' = "submit" /\ UNCHANGED <<output_format, output_file>>
     ELSE pc' = "raised" /\ DrawOutputArgs
  /\ UNCHANGED <<image_files, results, progress, report, returned,
                 dirState, dirEntries, kind, max_workers, poolVars, renderVars>>

\* lines 149-152: executor.submit for the next discovered file
Submit ==
  /\ pc = "submit"
  /\ LET i == Len(fut) + 1
         adj == AdjustThreadCount(threads, idleSem, max_workers)
     IN  /\ fut' = Append(fut, NewFuture(image_files[i]))
         /\ queue' = Append(queue, i)
         /\ threads' = adj[1]
         /\ idleSem' = adj[2]
         /\ pc' = IF i = Len(image_files) THEN "as_completed" ELSE "submit"
  /\ UNCHANGED <<image_files, results, progress, report, returned,
                 waiter, backendCalls, inputVars, renderVars>>

\* a variant whose threads take the work item submitted last
WorkerTake_Lifo ==
  /\ threads.blocked > 0
  /\ queue # << >>
  /\ threads' = [blocked |-> threads.blocked - 1,
                 running |-> threads.running \cup {queue[Len(queue)]}]
  /\ queue' = SubSeq(queue, 1, Len(queue) - 1)
  /\ fut' = [fut EXCEPT ![queue[Len(queue)]].state = "RUNNING",
                        ![queue[Len(queue)]].runs = @ + 1]
  /\ UNCHANGED <<idleSem, waiter, backendCalls, inputVars, orchVars, renderVars>>

\* a pool thread blocked in get() takes the oldest work item and starts
\* running it
WorkerTake ==
  /\ threads.blocked > 0
  /\ queue # << >>
  /\ threads' = [blocked |-> threads.blocked - 1, running |-> threads.running \cup {Head(queue)}]
  /\ queue' = Tail(queue)
  /\ fut' = [fut EXCEPT ![Head(queue)].state = "RUNNING", ![Head(queue)].runs = @ + 1]
  /\ UNCHANGED <<idleSem, waiter, backendCalls, inputVars, orchVars, renderVars>>

\* a variant in which the worker thread itself stores the outcome and counts it
WorkerFinish_WritesResults(i) ==
  /\ i \in threads.running
  /\ \E k \in Kinds :
     LET out == analyze_screenshot(fut[i].arg, k)
     IN  /\ kind' = [kind EXCEPT ![Basename(fut[i].arg)] = k]
         /\ fut' = [fut EXCEPT ![i].state = "FINISHED", ![i].tag = out.tag,
                               ![i].value = out.value, ![i].calls = @ + out.calls]
         /\ backendCalls' = backendCalls + out.calls
         /\ waiter' = IF waiter.installed
                      THEN [waiter EXCEPT !.finished = Append(@, i)]
                      ELSE waiter
         /\ results' = DictSet(results, Basename(fut[i].arg), out.value)
  /\ progress' = progress + 1
  /\ threads' = [blocked |-> threads.blocked + 1, running |-> threads.running \ {i}]
  /\ idleSem' = idleSem + 1
  /\ UNCHANGED <<queue, dirState, dirEntries, max_workers, output_format, output_file,
                 pc, image_files, report, returned, renderVars>>

\* the call of analyze_screenshot a thread runs for future i ends: the
\* future takes its result or exception, an installed waiter is told, the
\* thread releases the idle semaphore and blocks in get() again
WorkerFinish(i) ==
  /\ i \in threads.running
  /\ \E k \in Kinds :
     LET out == analyze_screenshot(fut[i].arg, k)
     IN  /\ kind' = [kind EXCEPT ![Basename(fut[i].arg)] = k]
         /\ fut' = [fut EXCEPT ![i].state = "FINISHED", ![i].tag = out.tag,
                               ![i].value = out.value, ![i].calls = @ + out.calls]
         /\ backendCalls' = backendCalls + out.calls
         /\ waiter' = IF waiter.installed
                      THEN [waiter EXCEPT !.finished = Append(@, i)]
                      ELSE waiter
  /\ threads' = [blocked |-> threads.blocked + 1, running |-> threads.running \ {i}]
  /\ idleSem' = idleSem + 1
  /\ UNCHANGED <<queue, dirState, dirEntries, max_workers, output_format, output_file,
                 orchVars, renderVars>>

\* line 154: as_completed starts: the futures already finished are set aside
\* and a waiter is installed on the others
StartCollect ==
  /\ pc = "as_completed"
  /\ waiter' = [installed |-> TRUE,
                snapshot |-> {i \in 1..Len(fut) : fut[i].state = "FINISHED"},
                finished |-> << >>]
  /\ pc' = "collect"
  /\ UNCHANGED <<image_files, results, progress, report, returned, queue, threads,
                 idleSem, fut, backendCalls, inputVars, renderVars>>

\* lines 154-163: one iteration of the collection loop; after the last one
\* the executor is shut down and the output stage is next
Collect ==
  /\ pc = "collect"
  /\ \E i \in NextYield(waiter) :
       /\ results' = RecordOutcome(results, Basename(FutureToFile(image_files, i)), fut[i])
       /\ fut' = [fut EXCEPT ![i].records = @ + 1]
       /\ waiter' = AfterYield(waiter, i)
       /\ progress' = TqdmUpdate(progress)
       /\ pc' = LoopExit(fut[i], progress + 1, Len(fut))
  /\ UNCHANGED <<image_files, report, returned, queue, threads, idleSem,
                 backendCalls, inputVars, renderVars>>

\* lines 165-210: the report is rendered and results returned
Output ==
  /\ pc = "output"
  /\ DrawOutputArgs
  /\ report' = Render(results, output_format', output_file')
  /\ returned' = <<results>>
  /\ pc' = "returned"
  /\ UNCHANGED <<image_files, results, progress, dirState, dirEntries, kind,
                 max_workers, poolVars, renderVars>>

Next ==
  \/ Discover
  \/ CreatePool
  \/ Submit
  \/ WorkerTake
  \/ \E i \in 1..Len(fut) : WorkerFinish(i)
  \/ StartCollect
  \/ Collect
  \/ Output

Spec == Init /\ [][Next]_vars

\* the steps of the thread that called analyze_directory
OrchestratorStep == Discover \/ CreatePool \/ Submit \/ StartCollect \/ Collect \/ Output

\* the calling thread keeps running, an idle worker thread that has work in
\* the queue gets to take it, and of the calls of the backend under way one
\* comes back (so that, there being finitely many, each of them does)
Fairness ==
  /\ WF_vars(OrchestratorStep)
  /\ WF_vars(WorkerTake)
  /\ WF_vars(\E i \in 1..Len(fut) : WorkerFinish(i))

FairSpec == Spec /\ Fairness

TypeOK ==
  /\ pc \in {"start", "pool", "submit", "as_completed", "collect", "output", "returned", "raised"}
  /\ progress \in 0..Len(image_files)
  /\ Len(fut) <= Len(image_files)

\* --------------------------------------------------- the technologies cell
\* lines 189-191 on their own: the renderer is given a technologies list
TechNames ==
  {"PHP", "nginx", "Ruby on Rails", "jQuery UI 1.13", "Apache Tomcat 9",
   "Microsoft SharePoint Server 19", "Adobe Experience Manager 6.5 SP"}

RECURSIVE TechLists(_)
TechLists(n) ==
  IF n = 0 THEN {<< >>}
  ELSE TechLists(n - 1) \cup {Append(l, t) : l \in {m \in TechLists(n - 1) : Len(m) = n - 1},
                                            t \in TechNames}

RenderInit ==
  /\ dirState = "ok"
  /\ dirEntries = {}
  /\ kind = << >>
  /\ max_workers = 1
  /\ output_format = "table"
  /\ output_file = None
  /\ pc = "output"
  /\ image_files = << >>
  /\ queue = << >>
  /\ threads = NoThreads
  /\ idleSem = 0
  /\ fut = << >>
  /\ waiter = [installed |-> FALSE, snapshot |-> {}, finished |-> << >>]
  /\ results = << >>
  /\ progress = 0
  /\ backendCalls = 0
  /\ report = NoReport
  /\ returned = << >>
  /\ techIn \in TechLists(MaxTechs)
  /\ techOut = << >>
  /\ rowIn = << >>
  /\ rowOut = << >>

RenderTech ==
  /\ techOut = << >>
  /\ techOut' = <<TechStr(techIn)>>
  /\ UNCHANGED <<techIn, rowIn, rowOut, inputVars, orchVars, poolVars>>

RenderNext == RenderTech

SpecRender == RenderInit /\ [][RenderNext]_vars

\* ------------------------------------------------------- one row of the table
\* lines 184-201 and 166 on their own: the renderers are given one payload.
\* The columns of the table, in the order of add_row
FeatureColumns == <<"old_looking", "login_page", "webapp", "custom_404", "parked_domain">>

\* what a feature sub-object of a payload may hold
SubObjects ==
  {EmptyDict, [detected |-> TRUE], [confidence |-> 75],
   [detected |-> TRUE, confidence |-> 75], [detected |-> FALSE, confidence |-> 100]}

\* the payloads: any of the features present, each with any sub-object, the
\* technologies list absent, empty or not
Payloads ==
  UNION {UNION {{[k \in present \cup techKey |->
                    IF k = "technologies" THEN techs ELSE sub[k]] :
                  sub \in [present -> SubObjects]} :
                techs \in (IF techKey = {} THEN {<< >>} ELSE {<< >>, <<"PHP", "nginx">>})} :
         present \in SUBSET Range(FeatureColumns), techKey \in {{}, {"technologies"}}}

RowInit ==
  /\ dirState = "ok"
  /\ dirEntries = {}
  /\ kind = << >>
  /\ max_workers = 1
  /\ output_format = "table"
  /\ output_file = "out.json"
  /\ pc = "output"
  /\ image_files = << >>
  /\ queue = << >>
  /\ threads = NoThreads
  /\ idleSem = 0
  /\ fut = << >>
  /\ waiter = [installed |-> FALSE, snapshot |-> {}, finished |-> << >>]
  /\ results = << >>
  /\ progress = 0
  /\ backendCalls = 0
  /\ report = NoReport
  /\ returned = << >>
  /\ techIn = << >>
  /\ techOut = << >>
  /\ rowIn \in Payloads
  /\ rowOut = << >>

\* the table row and the JSON document of the entry "a.png": rowIn
RenderRow ==
  /\ rowOut = << >>
  /\ rowOut' = <<[row |-> TableRow("a.png", rowIn),
                  json |-> JsonDumps(<<<<"a.png", rowIn>>>>)]>>
  /\ UNCHANGED <<rowIn, techIn, techOut, inputVars, orchVars, poolVars>>

RowNext == RenderRow

SpecRow == RowInit /\ [][RowNext]_vars

\* ================================================================ claims
\* the basenames of the discovered files, in discovery order
DiscoveredNames == [i \in 1..Len(image_files) |-> Basename(image_files[i])]

Injective(q) == \A i, j \in 1..Len(q) : q[i] = q[j] => i = j

\* the discovered files whose analysis failed, and those it succeeded for
Failed == {n \in DOMAIN kind : kind[n] \in {"ioerr", "neterr", "badjson"}}
Succeeded == {n \in DOMAIN kind : kind[n] = "ok"}

\* the tasks that are executing analyze_screenshot on a worker
Executing == {i \in 1..Len(fut) : fut[i].state = "RUNNING"}

\* the state of the task of the i-th discovered file: Pending until a worker
\* starts it, Recorded once its outcome is in results, InFlight in between
TaskState(i) ==
  IF i > Len(fut) \/ fut[i].state = "PENDING" THEN "Pending"
  ELSE IF fut[i].records = 0 THEN "InFlight"
  ELSE "Recorded"

AllRecorded ==
  /\ Len(fut) = Len(image_files)
  /\ \A i \in 1..Len(image_files) : TaskState(i) = "Recorded"

\* C1: when analyze_directory returns, the returned dict has one entry per
\* discovered file and its keys are exactly the discovered basenames, each
\* once, whatever the completion order and whichever tasks failed
C1_ResultSetComplete ==
  returned # << >> =>
    /\ Len(returned[1]) = Len(image_files)
    /\ Keys(returned[1]) = Range(DiscoveredNames)
    /\ Injective(KeySeq(returned[1]))
    /\ Cardinality(Keys(returned[1])) =
         (IF dirState = "ok" THEN Cardinality(Matching(dirEntries)) ELSE 0)

\* C1 witness: a run over three files returned, with a failed task and with
\* the entries in another order than the files were discovered in
C1_Witness ==
  /\ returned # << >>
  /\ Len(image_files) = 3
  /\ Len(returned[1]) = 3
  /\ KeySeq(returned[1]) # DiscoveredNames
  /\ Failed # {}

\* C2: with a worker count N >= 1, at most N tasks are executing
\* analyze_screenshot in any reachable state
C2_ConcurrencyBound ==
  max_workers >= 1 => Cardinality(Executing) <= max_workers

\* C2 witness: N = 2 tasks execute while a third one waits in the queue
C2_Witness ==
  /\ max_workers = 2
  /\ Cardinality(Executing) = 2
  /\ queue # << >>

\* C3: a failed task leaves its siblings alone: the run never aborts because
\* of it, the collector is never left waiting with no step possible (no
\* sibling is cancelled or abandoned), and when the run returns every file
\* has its own outcome: the backend's payload where the analysis succeeded,
\* an error entry where it failed
C3_FailureIsolation ==
  /\ (Failed # {} /\ PoolAccepts(max_workers)) => pc # "raised"
  /\ (Failed # {} /\ pc = "collect" /\ NextYield(waiter) = {}) => ENABLED Next
  /\ (Failed # {} /\ returned # << >>) =>
       /\ AllRecorded
       /\ \A n \in Range(DiscoveredNames) :
            /\ n \in Keys(returned[1])
            /\ kind[n] = "ok" => Lookup(returned[1], n) = PayloadOf(n)
            /\ kind[n] # "ok" => "error" \in DOMAIN Lookup(returned[1], n)

\* C3 witness: a run returned in which one task failed on a malformed body
\* and two others succeeded
C3_Witness ==
  /\ returned # << >>
  /\ \E n \in Failed : kind[n] = "badjson"
  /\ Cardinality(Failed) = 1
  /\ Cardinality(Succeeded) = 2

\* C4: the report is not rendered or written, and analyze_directory does not
\* return, while a task is still Pending or InFlight
C4_JoinBarrier ==
  (pc \in {"output", "returned"} \/ report # NoReport \/ returned # << >>) =>
    /\ \A i \in 1..Len(image_files) : TaskState(i) = "Recorded"
    /\ Executing = {}
    /\ queue = << >>

\* C4 witness: the report of a run over at least two files was emitted
C4_Witness ==
  /\ pc = "returned"
  /\ report # NoReport
  /\ Len(image_files) >= 2

\* C5: analyze_screenshot never raises: no future ever holds an exception,
\* and a file that cannot be read gives the entry a backend failure gives
C5_AdapterNeverRaises ==
  /\ \A i \in 1..Len(fut) : fut[i].tag # "exception"
  /\ \A i \in 1..Len(results) :
       "error" \in DOMAIN results[i][2] => DOMAIN results[i][2] = {"error", "filename"}

\* C6: a worker count <= 0 is rejected whatever the directory holds: such a
\* run never returns a dict and never calls the backend
C6_NonPositiveWorkersRejected ==
  max_workers <= 0 => (pc # "returned" /\ returned = << >> /\ backendCalls = 0)

\* C7: discovery over an absent or unreadable directory is fatal: such a run
\* never returns the (empty) dict that an empty directory gives
C7_DiscoveryErrorIsFatal ==
  dirState # "ok" => (pc # "returned" /\ returned = << >>)

\* C8: the technologies cell is the first TechWidth characters and "..."
\* when the joined string is longer than TechWidth, and the joined string
\* itself when it has TechWidth characters or fewer
C8_TruncationRule ==
  techOut # << >> =>
    techOut[1] = IF Len(Join(techIn)) > TechWidth
                 THEN SubSeq(Join(techIn), 1, TechWidth) \o "..."
                 ELSE Join(techIn)

\* C9: the report is the same for every completion order.  Every input has a
\* run whose tasks are collected in submission order, so the report is a
\* function of the input only if its entries are always in discovery order
C9_ReportDeterministic ==
  returned # << >> =>
    /\ KeySeq(returned[1]) = DiscoveredNames
    /\ \A d \in Range(report.stdout) \cup Range(report.file) :
         [i \in 1..Len(d) |-> d[i].key] = DiscoveredNames
    /\ \A rows \in Range(report.table) :
         [i \in 1..Len(rows) |-> rows[i][1]] = DiscoveredNames

\* C10: a task only moves Pending -> InFlight -> Recorded; once Recorded its
\* future and its entry of results never change; no task is run or recorded
\* twice and no file is submitted twice
C10_TaskStep ==
  /\ Injective(image_files)
  /\ Len(fut') <= Len(image_files)
  /\ \A i \in 1..Len(fut') :
       /\ fut'[i].runs <= 1
       /\ fut'[i].records <= 1
       /\ fut'[i].runs = (IF fut'[i].state = "PENDING" THEN 0 ELSE 1)
       /\ fut'[i].arg = image_files[i]
  /\ \A i \in 1..Len(image_files) :
       /\ TaskState(i) = "Pending" => TaskState(i)' \in {"Pending", "InFlight"}
       /\ TaskState(i) = "InFlight" => TaskState(i)' \in {"InFlight", "Recorded"}
       /\ TaskState(i) = "Recorded" =>
            /\ TaskState(i)' = "Recorded"
            /\ fut'[i] = fut[i]
            /\ Lookup(results', Basename(image_files[i]))
                 = Lookup(results, Basename(image_files[i]))
       /\ (i <= Len(fut) /\ fut[i].state = "FINISHED") =>
            (fut'[i].tag = fut[i].tag /\ fut'[i].value = fut[i].value)

C10_TaskStateMachine == [][C10_TaskStep]_vars

\* C10 witness: a task that failed and a task that succeeded are Recorded
\* while another task is still InFlight
C10_Witness ==
  /\ \E i, j, k \in 1..Len(fut) :
       /\ TaskState(i) = "Recorded" /\ fut[i].tag = "exception"
       /\ TaskState(j) = "Recorded" /\ fut[j].tag = "result"
       /\ TaskState(k) = "InFlight"

\* the discovered files whose call got as far as the request
Requested == {n \in DOMAIN kind : kind[n] \in {"ok", "neterr", "badjson"}}

\* C11 as claimed: every finished call of analyze_screenshot issued exactly
\* one request, and a run that returned over N files issued N requests
C11_ExactlyOneRequest ==
  /\ \A i \in 1..Len(fut) : fut[i].state = "FINISHED" => fut[i].calls = 1
  /\ (returned # << >> /\ image_files # << >>) => backendCalls = Len(image_files)

\* C11 amended: a call of analyze_screenshot issues at most one request and
\* never a second one: exactly one when the file could be read, none when
\* it could not; the backend receives one request per file that was read
C11_AtMostOneRequest ==
  /\ \A i \in 1..Len(fut) :
       /\ fut[i].state # "FINISHED" => fut[i].calls = 0
       /\ fut[i].state = "FINISHED" =>
            fut[i].calls = (IF fut[i].tag = "exception" THEN 0 ELSE 1)
  /\ backendCalls = Cardinality(Requested)
  /\ returned # << >> =>
       backendCalls = Len(image_files) - Cardinality({n \in DOMAIN kind : kind[n] = "ioerr"})

\* C11 witness: a run over three files returned after an unreadable file, a
\* failed request and an answered one: two requests
C11_Witness ==
  /\ returned # << >>
  /\ Len(image_files) = 3
  /\ {kind[n] : n \in DOMAIN kind} = {"ioerr", "neterr", "ok"}
  /\ backendCalls = 2

\* C12: a run with a valid worker count over a directory without a matching
\* file can only return, and what it returns is the empty dict; it calls no
\* backend, submits no task and starts no pool thread
C12_EmptyDirectoryRun ==
  (dirState = "ok" /\ Matching(dirEntries) = {} /\ max_workers >= 1) =>
    /\ pc \in {"start", "returned"}
    /\ pc = "start" => ENABLED Discover
    /\ pc = "returned" => returned = << << >> >>
    /\ backendCalls = 0
    /\ fut = << >>
    /\ queue = << >>
    /\ threads = NoThreads

\* C12 witness: such a run returned, over a directory whose only entry has
\* an upper-case extension
C12_Witness ==
  /\ dirState = "ok"
  /\ dirEntries = {"e.PNG"}
  /\ max_workers >= 1
  /\ pc = "returned"
  /\ returned = << << >> >>

\* C13: whatever the completion order, the entry recorded under a file's
\* basename is the outcome of the call made on that file: what its own
\* future holds, which is that file's payload or names that file
C13_OutcomeAttribution ==
  \A i \in 1..Len(fut) :
    fut[i].records >= 1 =>
      LET name == Basename(fut[i].arg)
          entry == Lookup(results, name)
      IN  /\ name \in Keys(results)
          /\ fut[i].tag = "result" => entry = fut[i].value
          /\ fut[i].tag = "exception" => entry = [error |-> fut[i].value.exc]
          /\ kind[name] = "ok" => entry = PayloadOf(name)
          /\ kind[name] \in {"neterr", "badjson"} => entry.filename = name

\* C13 witness: the first submitted of three files is recorded last, after
\* the two others, and its payload sits under its own name
C13_Witness ==
  /\ Len(results) = 3
  /\ results[3][1] = Basename(image_files[1])
  /\ kind[results[3][1]] = "ok"
  /\ results[3][2] = PayloadOf(results[3][1])
  /\ kind[results[1][1]] # "ok"

\* the seven keys the backend is asked for
FeatureKeys ==
  {"old_looking", "login_page", "webapp", "custom_404", "parked_domain",
   "technologies", "security_issues"}

\* value is the entry of a file: an error entry without feature fields when
\* its analysis failed, the backend's payload as returned when it succeeded
EntryShape(name, value) ==
  /\ kind[name] # "ok" => ("error" \in DOMAIN value /\ DOMAIN value \cap FeatureKeys = {})
  /\ kind[name] = "ok" => value = PayloadOf(name)

\* C14: every Failure entry of results, from the adapter or from the
\* orchestrator's except clause, has an error field and no feature field,
\* and every Success payload is stored and serialized as the backend gave it
C14_EntryShapes ==
  /\ \A i \in 1..Len(results) : EntryShape(results[i][1], results[i][2])
  /\ \A d \in Range(report.stdout) \cup Range(report.file) :
       \A i \in 1..Len(d) : EntryShape(d[i].key, d[i].value)

\* C14 witness: a document was written that holds an entry of a file that
\* could not be read, one of a failed request and one of a payload
C14_Witness ==
  /\ report.file # << >>
  /\ Len(report.file[1]) = 3
  /\ {kind[report.file[1][i].key] : i \in 1..3} = {"ioerr", "badjson", "ok"}

\* the text after the first character of a cell, and its first character
CellConfidence(cell) == SubSeq(cell, 2, Len(cell))
CellMark(cell) == SubSeq(cell, 1, 1)

\* C15: a payload that lacks a feature sub-object, a detected or confidence
\* field of one, or the technologies list is rendered all the same: the table
\* shows not-detected for a missing detected, 0.00 for a missing confidence,
\* both for a missing sub-object and an empty cell for missing technologies,
\* and the JSON document holds the payload as it is
C15_DefaultSubstitution ==
  /\ rowOut = << >> => ENABLED RenderRow
  /\ rowOut # << >> =>
       LET row == rowOut[1].row
       IN  /\ Len(row) = 7
           /\ row[1] = "a.png"
           /\ \A j \in 1..Len(FeatureColumns) :
                LET key == FeatureColumns[j]
                    cell == row[j + 1]
                    sub == IF key \in DOMAIN rowIn THEN rowIn[key] ELSE EmptyDict
                IN  /\ key \notin DOMAIN rowIn => cell = "N (0.00)"
                    /\ "detected" \notin DOMAIN sub => CellMark(cell) = "N"
                    /\ "confidence" \notin DOMAIN sub => CellConfidence(cell) = " (0.00)"
                    /\ "detected" \in DOMAIN sub =>
                         CellMark(cell) = (IF sub.detected THEN "Y" ELSE "N")
                    /\ "confidence" \in DOMAIN sub =>
                         CellConfidence(cell) = " (" \o Fmt2(sub.confidence) \o ")"
           /\ "technologies" \notin DOMAIN rowIn => row[7] = ""
           /\ rowOut[1].json = <<[key |-> "a.png", value |-> rowIn]>>

\* C15 witness: a payload without login_page, with a webapp that has no
\* detected field and a custom_404 that has no confidence field, and without
\* technologies, has been rendered
C15_Witness ==
  /\ rowOut # << >>
  /\ DOMAIN rowIn = {"old_looking", "webapp", "custom_404"}
  /\ rowIn["webapp"] = [confidence |-> 75]
  /\ rowIn["custom_404"] = [detected |-> TRUE]
  /\ rowOut[1].row[3] = "N (0.00)"
  /\ rowOut[1].row[4] = "N (0.75)"
  /\ rowOut[1].row[5] = "Y (0.00)"
  /\ rowOut[1].row[7] = ""

\* a step of a worker thread: it takes a work item or finishes one, which
\* shows in the state of the item's future
WorkerStep == \E i \in 1..Len(fut) : fut'[i].state # fut[i].state

\* C16: results and the progress count are written by the collecting thread
\* only: every step that changes either is a step of the collection loop of
\* analyze_directory and not a step of a worker thread, so no two threads
\* ever write them together and a worker never writes them
C16_WriterStep ==
  /\ (results' # results \/ progress' # progress) =>
       /\ pc = "collect"
       /\ ~WorkerStep
       /\ queue' = queue
       /\ threads' = threads
  /\ WorkerStep => (results' = results /\ progress' = progress /\ pc' = pc)

C16_SingleWriter == [][C16_WriterStep]_vars

\* C16 witness: the collecting thread has written an entry while a worker
\* thread is in the middle of a call and another task waits in the queue
C16_Witness ==
  /\ results # << >>
  /\ progress > 0
  /\ threads.running # {}
  /\ queue # << >>

\* C17: the completed count is 0 at the start, never decreases, goes up by
\* exactly one with every outcome recorded and only then, never exceeds the
\* number of discovered files, and equals it when analyze_directory returns
C17_ProgressStep ==
  /\ progress' >= progress
  /\ Len(results') \in {Len(results), Len(results) + 1}
  /\ Len(results') = Len(results) + 1 <=> progress' = progress + 1
  /\ progress' # progress => progress' = progress + 1
  /\ progress' <= Len(image_files')
  /\ pc' = "returned" => progress' = Len(image_files')

C17_ProgressExact ==
  /\ progress = 0
  /\ [][C17_ProgressStep]_vars

\* C17 witness: the run has returned with the count at three, one of the
\* three outcomes being an exception of the task
C17_Witness ==
  /\ pc = "returned"
  /\ progress = 3
  /\ Len(image_files) = 3
  /\ \E i \in 1..Len(fut) : fut[i].tag = "exception"

\* a future that has finished and whose outcome is not yet in results
FinishedUnrecorded == {i \in 1..Len(fut) : fut[i].state = "FINISHED" /\ fut[i].records = 0}

\* C18: with backend calls that return and threads that get to run, a run
\* that has built its pool comes to record every discovered file and to
\* return; and the collection loop is never blocked while some finished task
\* is unrecorded, whatever state the tasks submitted before it are in
C18_Liveness ==
  /\ [](pc = "collect" /\ FinishedUnrecorded # {} => NextYield(waiter) # {})
  /\ (pc = "submit") ~> (pc = "returned" /\ AllRecorded)

\* C18 witness: a task is Recorded while a task submitted before it is still
\* being run by a worker thread
C18_Witness ==
  \E i, j \in 1..Len(fut) :
    /\ i < j
    /\ fut[i].state = "RUNNING"
    /\ TaskState(j) = "Recorded"
    /\ pc = "collect"

\* C19: a run that discovered no file returns without rendering anything:
\* nothing is printed and nothing is written to the output file, whichever
\* format and output file were given
C19_EmptyRunWritesNothing ==
  (pc = "returned" /\ image_files = << >>) =>
    /\ report = NoReport
    /\ returned = << << >> >>
    /\ results = << >>

\* C19 witness: a run called with the table format and an output file
\* discovered nothing and returned
C19_Witness ==
  /\ pc = "returned"
  /\ image_files = << >>
  /\ output_format = "table"
  /\ output_file # None
  /\ output_file # Unread
  /\ report.file = << >>

\* the collection of outcomes has begun: as_completed has been called
CollectionBegun == waiter.installed \/ progress > 0 \/ results # << >>

\* C20: when the collection of outcomes begins every discovered file has been
\* submitted, and work items leave the queue in the order of submission: a
\* task is never taken by a worker while one submitted before it still waits
C20_SubmitAllThenFifo ==
  /\ CollectionBegun => Len(fut) = Len(image_files)
  /\ \A i, j \in 1..Len(fut) :
       (i < j /\ TaskState(j) # "Pending") => TaskState(i) # "Pending"
  /\ \A k \in 1..Len(queue) :
       /\ TaskState(queue[k]) = "Pending"
       /\ k < Len(queue) => queue[k] < queue[k + 1]

\* C20 witness: outcomes are being collected, the first task has been
\* recorded and the third still waits in the queue
C20_Witness ==
  /\ pc = "collect"
  /\ Len(fut) = 3
  /\ TaskState(1) = "Recorded"
  /\ TaskState(3) = "Pending"
  /\ queue = <<3>>

====
